---- MODULE Spec2Model ----
(***************************************************************************)
(* Model of AnalysisTools (src/01. IDEAL BFPJC/src/analysis_tools.py).     *)
(*                                                                         *)
(* A column name is a sequence of one-character strings, so that the       *)
(* string operations of sanitize_columns (strip, replace, lower) are       *)
(* computed character by character.  A table (pandas DataFrame) is a       *)
(* record [cols, rows]: cols is the sequence of column names, rows is a    *)
(* sequence of rows, each a sequence of cell values aligned with cols.     *)
(* A missing cell (NaN / None) is the value NA.                            *)
(***************************************************************************)
EXTENDS Integers, Sequences, FiniteSets, TLC

VARIABLES caller_df, df, total_respondents,
          question_col, subquest_col, respondent_col, answer_col, result

vars == <<caller_df, df, total_respondents,
          question_col, subquest_col, respondent_col, answer_col, result>>

config == <<total_respondents, question_col, subquest_col, respondent_col, answer_col>>

----------------------------------------------------------------------------
(* Bounds of the model *)

\* longest generated column name, in characters (SpecSanitize)
MaxLen == 3

\* most rows of a held table in SpecAnalysis
MaxRows == 3

\* most rows of a held table in Spec
MaxColRows == 2

\* largest total_respondents given to the constructor
MaxTotal == 4

----------------------------------------------------------------------------
(* Generic helpers *)

Range(s) == {s[i] : i \in 1..Len(s)}

\* a missing cell of a column of labels (None / NaN)
NA == "NA"

IsNA(v) == v = NA

\* a missing cell of a numeric column, and the NaN of a computed percentage
NaN == -1

IsNaN(v) == v = NaN

----------------------------------------------------------------------------
(* Strings as character sequences *)

Upper == <<"A","B","C","D","E","F","G","H","I","J","K","L","M",
           "N","O","P","Q","R","S","T","U","V","W","X","Y","Z">>

LowerOf == <<"a","b","c","d","e","f","g","h","i","j","k","l","m",
             "n","o","p","q","r","s","t","u","v","w","x","y","z">>

\* characters str.strip() removes at both ends (those of the model's alphabet)
Whitespace == {" ", "\t"}

\* str.strip()
RECURSIVE LStrip(_)
LStrip(s) == IF s # <<>> /\ s[1] \in Whitespace THEN LStrip(Tail(s)) ELSE s

RECURSIVE RStrip(_)
RStrip(s) == IF s # <<>> /\ s[Len(s)] \in Whitespace
             THEN RStrip(SubSeq(s, 1, Len(s) - 1)) ELSE s

Strip(s) == RStrip(LStrip(s))

\* .replace(' ', '_').replace('.', '_').replace('-', '_')
ReplaceSeparators(s) ==
    [i \in 1..Len(s) |-> IF s[i] \in {" ", ".", "-"} THEN "_" ELSE s[i]]

IsNotParen(c) == c \notin {"(", ")"}

\* .replace('(', '').replace(')', '')
RemoveParens(s) == SelectSeq(s, IsNotParen)

\* a variant that leaves the name as it is (used to vary CollapseOnce)
RECURSIVE NoCollapse(_)
NoCollapse(s) == IF s = <<>> THEN <<>> ELSE <<s[1]>> \o NoCollapse(Tail(s))

\* name.replace('__', '_'): one left-to-right pass over non-overlapping matches
RECURSIVE CollapseOnce(_)
CollapseOnce(s) ==
    IF Len(s) < 2 THEN s
    ELSE IF s[1] = "_" /\ s[2] = "_"
         THEN <<"_">> \o CollapseOnce(SubSeq(s, 3, Len(s)))
         ELSE <<s[1]>> \o CollapseOnce(Tail(s))

LowerChar(c) ==
    IF \E k \in 1..Len(Upper) : Upper[k] = c
    THEN LowerOf[CHOOSE k \in 1..Len(Upper) : Upper[k] = c]
    ELSE c

\* str.lower()
Lower(s) == [i \in 1..Len(s) |-> LowerChar(s[i])]

\* a variant that also removes the period instead of replacing it
SanitizeNameDropPeriod(col) ==
    LET IsKept(c) == c # "."
    IN  Lower(CollapseOnce(RemoveParens(ReplaceSeparators(SelectSeq(Strip(col), IsKept)))))

\* body of the loop of sanitize_columns: the new name of column col
SanitizeName(col) == Lower(CollapseOnce(RemoveParens(ReplaceSeparators(Strip(col)))))

\* a variant that rebuilds the table from the new names and loses the rows
RenameLosingRows(t) == [cols |-> [i \in 1..Len(t.cols) |-> SanitizeName(t.cols[i])],
                        rows |-> <<>>]

\* DataFrame.rename(columns=new_cols): a new table, same rows, renamed columns
Rename(t) == [cols |-> [i \in 1..Len(t.cols) |-> SanitizeName(t.cols[i])],
              rows |-> t.rows]

----------------------------------------------------------------------------
(* Tables *)

EmptyTable == [cols |-> <<>>, rows |-> <<>>]

\* positions of the columns called name
ColPositions(t, name) == {i \in 1..Len(t.cols) : t.cols[i] = name}

\* `name in df.columns`
HasCol(t, name) == ColPositions(t, name) # {}

Pos(t, name) ==
    IF HasCol(t, name)
    THEN CHOOSE i \in ColPositions(t, name) : \A j \in ColPositions(t, name) : i <= j
    ELSE 0

\* value of row number i in column name (NA when there is no such column)
Cell(t, i, name) == IF Pos(t, name) = 0 THEN NA ELSE t.rows[i][Pos(t, name)]

\* a variant that never looks at the last referenced name
KeyErrorAtButLast(t, names) ==
    IF \E i \in 1..(Len(names) - 1) : ~HasCol(t, names[i])
    THEN CHOOSE i \in 1..(Len(names) - 1) :
            /\ ~HasCol(t, names[i])
            /\ \A j \in 1..(i - 1) : HasCol(t, names[j])
    ELSE 0

\* Lazy lookup failure of pandas: names are the column names an operation
\* references, in the order it references them; the first one absent from
\* the table raises KeyError.  0 when all are present.
KeyErrorAt(t, names) ==
    IF \E i \in 1..Len(names) : ~HasCol(t, names[i])
    THEN CHOOSE i \in 1..Len(names) :
            /\ ~HasCol(t, names[i])
            /\ \A j \in 1..(i - 1) : HasCol(t, names[j])
    ELSE 0

\* a referenced name carried by two columns: the selection is a table, not a
\* column, and grouping by it raises ValueError ("not 1-dimensional")
Ambiguous(t, names) == \E i \in 1..Len(names) : Cardinality(ColPositions(t, names[i])) > 1

\* self.df[self.df[question_col].isin(q_list)]: the row numbers that pass
FilterRows(t, qc, q_list) == {i \in 1..Len(t.rows) : Cell(t, i, qc) \in Range(q_list)}

\* the grouping key of row i
KeyOf(t, i, keys) == [k \in 1..Len(keys) |-> Cell(t, i, keys[k])]

\* groupby drops the rows whose key has a missing component (dropna=True)
KeyComplete(key) == \A k \in 1..Len(key) : ~IsNA(key[k])

\* groupby(keys) over the rows in idx: the distinct complete keys
GroupKeys(t, idx, keys) ==
    {KeyOf(t, i, keys) : i \in {j \in idx : KeyComplete(KeyOf(t, j, keys))}}

\* the rows of one group
GroupRows(t, idx, keys, key) == {i \in idx : KeyOf(t, i, keys) = key}

\* a variant that truncates instead of rounding
Truncate2(num, den) == IF den = 0 THEN NaN ELSE (num * 10000) \div den

\* (num / den * 100).round(2), in hundredths of a percent; round half to even
Round2(num, den) ==
    IF den = 0 THEN NaN
    ELSE LET q == (num * 10000) \div den
             r == (num * 10000) % den
         IN  IF 2 * r < den THEN q
             ELSE IF 2 * r > den THEN q + 1
             ELSE IF q % 2 = 0 THEN q ELSE q + 1

RECURSIVE SumOver(_, _)
SumOver(f, S) ==
    IF S = {} THEN 0
    ELSE LET x == CHOOSE y \in S : TRUE IN f[x] + SumOver(f, S \ {x})

\* the shape of every value of `result`
Outcome(op, q_list, group, status, column, rows, table) ==
    [op |-> op, q_list |-> q_list, group |-> group, status |-> status,
     column |-> column, rows |-> rows, table |-> table]

Failure(op, q_list, group, t, names) ==
    IF KeyErrorAt(t, names) # 0
    THEN Outcome(op, q_list, group, "KeyError", names[KeyErrorAt(t, names)], {}, EmptyTable)
    ELSE Outcome(op, q_list, group, "ValueError", <<>>, {}, EmptyTable)

Fails(t, names) == KeyErrorAt(t, names) # 0 \/ Ambiguous(t, names)

----------------------------------------------------------------------------
(* Names of the program *)

\* default of question_col
QuestionName == <<"q","u","e","s","t","i","o","n">>

\* default of subquest_col
SubquestionName == <<"s","u","b","q","u","e","s","t","i","o","n">>

\* default of respondent_col
RespondentName == <<"r","e","s","p","o","n","d","e","n","t","_","i","d">>

\* default of answer_col
AnswerName == <<"a","n","s","w","e","r">>

\* the column the pivot counts into
CountName == <<"C","o","u","n","t">>

MeanName == <<"m","e","a","n">>

StdName == <<"s","t","d">>

CountFuncName == <<"c","o","u","n","t">>

\* default of summary_funcs
DefaultSummaryFuncs == <<MeanName, StdName, CountFuncName>>

----------------------------------------------------------------------------
(* multi_response_analysis *)

\* a variant that counts every row with a respondent
NonNullRows(t, rows, rc) == Cardinality({i \in rows : ~IsNA(Cell(t, i, rc))})

\* .nunique(): distinct non-missing respondent identifiers of a set of rows
NUnique(t, rows, rc) == Cardinality({Cell(t, i, rc) : i \in rows} \ {NA})

MultiResponseResult(t, total, qc, sc, rc, q_list, group_cols) ==
    LET op     == "multi_response_analysis"
        needed == <<qc>> \o group_cols \o <<qc, sc, rc>>
        keys   == group_cols \o <<qc, sc>>
        idx    == FilterRows(t, qc, q_list)
    IN  IF Fails(t, needed) THEN Failure(op, q_list, group_cols, t, needed)
        ELSE Outcome(op, q_list, group_cols, "ok", <<>>,
                 {[key |-> k,
                   ResponseCount |-> NUnique(t, GroupRows(t, idx, keys, k), rc),
                   Percentage |-> Round2(NUnique(t, GroupRows(t, idx, keys, k), rc), total)]
                  : k \in GroupKeys(t, idx, keys)},
                 EmptyTable)

----------------------------------------------------------------------------
(* nominal_frequency_analysis and nominal_frequency_pivot *)

\* a variant that divides by the total over all questions
GrandTotal(counts, q) == SumOver(counts, DOMAIN counts)

\* groupby(level=0)['Count'].transform('sum'): the total of the question q
QuestionTotal(counts, q) == SumOver(counts, {k \in DOMAIN counts : k[1] = q})

\* rows of the result: Count and Percentage (%) of every key
FrequencyRows(counts) ==
    {[key |-> k, Count |-> counts[k],
      Percentage |-> Round2(counts[k], QuestionTotal(counts, k[1]))] : k \in DOMAIN counts}

\* a variant that counts each respondent once per key
SizeDistinct(t, rows, rc) == Cardinality({Cell(t, i, rc) : i \in rows})

\* .size(): raw number of rows of a group
Size(t, rows, rc) == Cardinality(rows)

NominalFrequencyResult(t, qc, rc, ac, q_list, group_col) ==
    LET op     == "nominal_frequency_analysis"
        needed == <<qc, qc, group_col, ac>>
        keys   == <<qc, group_col, ac>>
        idx    == FilterRows(t, qc, q_list)
        counts == [k \in GroupKeys(t, idx, keys) |-> Size(t, GroupRows(t, idx, keys, k), rc)]
    IN  IF Fails(t, needed) THEN Failure(op, q_list, group_col, t, needed)
        ELSE Outcome(op, q_list, group_col, "ok", <<>>, FrequencyRows(counts), EmptyTable)

\* a variant that counts the rows whatever their respondent value
CountAll(t, rows, rc) == Cardinality(rows)

\* aggfunc='count' on respondent_col: the rows with a non-missing respondent
CountNonNull(t, rows, rc) == Cardinality({i \in rows : ~IsNA(Cell(t, i, rc))})

\* pivot_table checks `values` first, then groups by the index columns.  When
\* no group is left, its final dropna(how="all", axis=1) removes the counted
\* column, and the later ['Count'] raises KeyError.
NominalPivotResult(t, qc, rc, ac, q_list, group_col) ==
    LET op     == "nominal_frequency_pivot"
        needed == <<qc, rc, qc, group_col, ac>>
        keys   == <<qc, group_col, ac>>
        idx    == FilterRows(t, qc, q_list)
        counts == [k \in GroupKeys(t, idx, keys) |->
                      CountNonNull(t, GroupRows(t, idx, keys, k), rc)]
    IN  IF Fails(t, needed) THEN Failure(op, q_list, group_col, t, needed)
        ELSE IF GroupKeys(t, idx, keys) = {}
        THEN Outcome(op, q_list, group_col, "KeyError", CountName, {}, EmptyTable)
        ELSE Outcome(op, q_list, group_col, "ok", <<>>, FrequencyRows(counts), EmptyTable)

----------------------------------------------------------------------------
(* grouped_summary_stats *)

\* a variant with the test of the loop inverted
FirstPresent(t, names) ==
    IF \E i \in 1..Len(names) : HasCol(t, names[i])
    THEN CHOOSE i \in 1..Len(names) :
            /\ HasCol(t, names[i])
            /\ \A j \in 1..(i - 1) : ~HasCol(t, names[j])
    ELSE 0

\* the validation loop: index of the first name not in df.columns, 0 if none
FirstAbsent(t, names) ==
    IF \E i \in 1..Len(names) : ~HasCol(t, names[i])
    THEN CHOOSE i \in 1..Len(names) :
            /\ ~HasCol(t, names[i])
            /\ \A j \in 1..(i - 1) : HasCol(t, names[j])
    ELSE 0

\* '_'.join(col).strip()
FlatName(col, func) == Strip(col \o <<"_">> \o func)

\* the flattened statistic columns, field by field, statistic by statistic
FlatNames(numeric_col_list, summary_funcs) ==
    [n \in 1..(Len(numeric_col_list) * Len(summary_funcs)) |->
        FlatName(numeric_col_list[((n - 1) \div Len(summary_funcs)) + 1],
                 summary_funcs[((n - 1) % Len(summary_funcs)) + 1])]

\* One statistic of column col over the rows of a group, as an exact
\* fraction <<numerator, denominator>> (denominator 0: NaN).  "std" is given
\* by its square, the sample variance.
Statistic(t, rows, col, func) ==
    LET present == {i \in rows : ~IsNaN(Cell(t, i, col))}
        n       == Cardinality(present)
        val     == [i \in present |-> Cell(t, i, col)]
        sq      == [i \in present |-> Cell(t, i, col) * Cell(t, i, col)]
        sum     == SumOver(val, present)
    IN  IF func = CountFuncName THEN <<n, 1>>
        ELSE IF func = MeanName THEN <<sum, n>>
        ELSE <<n * SumOver(sq, present) - sum * sum, n * (n - 1)>>

GroupedSummaryResult(t, numeric_col_list, group_col, summary_funcs) ==
    LET op      == "grouped_summary_stats"
        names   == numeric_col_list \o <<group_col>>
        all     == 1..Len(t.rows)
        keys    == <<group_col>>
        nstat   == Len(numeric_col_list) * Len(summary_funcs)
    IN  IF FirstAbsent(t, names) # 0
        THEN Outcome(op, numeric_col_list, group_col, "KeyError",
                     names[FirstAbsent(t, names)], {}, EmptyTable)
        ELSE IF Ambiguous(t, names)
        THEN Outcome(op, numeric_col_list, group_col, "ValueError", <<>>, {}, EmptyTable)
        ELSE Outcome(op, numeric_col_list, group_col, "ok", <<>>,
                 {[key |-> k,
                   values |-> [n \in 1..nstat |->
                       Statistic(t, GroupRows(t, all, keys, k),
                                 numeric_col_list[((n - 1) \div Len(summary_funcs)) + 1],
                                 summary_funcs[((n - 1) % Len(summary_funcs)) + 1])]]
                  : k \in GroupKeys(t, all, keys)},
                 [cols |-> <<group_col>> \o FlatNames(numeric_col_list, summary_funcs),
                  rows |-> <<>>])

----------------------------------------------------------------------------
(* Inputs *)

\* names of columns no generated table has
RegionName == <<"r","e","g","i","o","n">>

WeightName == <<"w","e","i","g","h","t">>

ScoreName == <<"s","c","o","r","e">>

DefaultCols == <<QuestionName, SubquestionName, RespondentName, AnswerName>>

\* column names as a data file may carry them, before sanitize_columns:
\* " Question", "SubQuestion", "respondent-id", "(Answer)", "Score "
RawCols == << <<" ","Q","u","e","s","t","i","o","n">>,
              <<"S","u","b","Q","u","e","s","t","i","o","n">>,
              <<"r","e","s","p","o","n","d","e","n","t","-","i","d">>,
              <<"(","A","n","s","w","e","r",")">>,
              <<"S","c","o","r","e"," ">> >>

QLists == {<<"Q1">>, <<"Q1", "Q2">>}

GroupColLists == {<<>>, <<AnswerName>>, <<RegionName>>}

GroupCols == {SubquestionName, RegionName}

NumericColLists == {<<ScoreName>>, <<ScoreName, WeightName>>, <<WeightName, ScoreName>>}

StatGroupCols == {AnswerName, RegionName}

SummaryFuncLists == {DefaultSummaryFuncs, <<CountFuncName>>}

\* rows of the tables of SpecAnalysis (question, subquestion, respondent,
\* answer): two of each, duplicates of one respondent, and missing cells
RowPool == << <<"Q1", "S1", "R1", "Yes">>, <<"Q1", "S1", "R2", "Yes">>,
              <<"Q1", "S2", "R1", "No">>,  <<"Q1", "S1", "R1", "No">>,
              <<"Q1", "S2", "R2", "Yes">>, <<"Q2", "S1", "R1", "Yes">>,
              <<"Q2", "S2", "R2", "No">>,  <<"Q1", NA, "R1", "Yes">>,
              <<"Q1", "S1", NA, "Yes">>,   <<"Q2", "S1", "R1", NA>> >>

\* rows of the tables of Spec, with a numeric score
ColRowPool == << <<"Q1", "S1", "R1", "Yes", 1>>, <<"Q1", "S2", "R2", "No", 2>>,
                 <<"Q2", "S1", NA, "Yes", NaN>> >>

\* The tables built from a pool: up to max rows, in pool order (the results
\* of the operations are sets of rows and do not depend on the row order).
RowsFrom(pool, max) ==
    UNION {{[i \in 1..len |-> pool[s[i]]] :
              s \in {f \in [1..len -> 1..Len(pool)] :
                        \A i \in 1..(len - 1) : f[i] <= f[i + 1]}} : len \in 0..max}

\* the elements of s at the positions in S, in order
RECURSIVE Project(_, _)
Project(s, S) ==
    IF s = <<>> THEN <<>>
    ELSE Project(SubSeq(s, 1, Len(s) - 1), S) \o (IF Len(s) \in S THEN <<s[Len(s)]>> ELSE <<>>)

\* a table with the columns at the positions in keep only
Keep(t, keep) == [cols |-> Project(t.cols, keep),
                  rows |-> [i \in 1..Len(t.rows) |-> Project(t.rows[i], keep)]]

\* the column sets of Spec: at most two of the five columns are left out
KeepSets == {S \in SUBSET (1..5) : Cardinality(S) >= 3}

Alphabet == {"a", "B", " ", "\t", ".", "-", "(", ")", "_"}

\* the scenario name " Favorite Color (2023)."
ScenarioName == <<" ","F","a","v","o","r","i","t","e"," ","C","o","l","o","r"," ",
                  "(","2","0","2","3",")",".">>

GeneratedNames == UNION {[1..len -> Alphabet] : len \in 0..MaxLen}

\* second column of the two-column tables of SpecSanitize
SecondNames == {QuestionName, <<"a", ".", ".", ".", "b">>}

----------------------------------------------------------------------------
(* Construction: __init__ stores a copy of the table and the five parameters *)

Construct(table, total) ==
    /\ caller_df = table
    /\ df = table
    /\ total_respondents = total
    /\ question_col = QuestionName
    /\ subquest_col = SubquestionName
    /\ respondent_col = RespondentName
    /\ answer_col = AnswerName
    /\ result = Outcome("__init__", <<>>, <<>>, "ok", <<>>, {}, EmptyTable)

Init ==
    \E rows \in RowsFrom(ColRowPool, MaxColRows), keep \in KeepSets,
       cols \in {DefaultCols \o <<ScoreName>>, RawCols}, total \in {1, MaxTotal} :
        Construct(Keep([cols |-> cols, rows |-> rows], keep), total)

InitAnalysis ==
    \E rows \in RowsFrom(RowPool, MaxRows), total \in 1..MaxTotal :
        Construct([cols |-> DefaultCols, rows |-> rows], total)

InitSanitize ==
    \E name \in GeneratedNames \cup {ScenarioName}, rest \in {<<>>} \cup {<<n>> : n \in SecondNames},
       rows \in {0, 1} :
        Construct([cols |-> <<name>> \o rest,
                   rows |-> [i \in 1..rows |-> [j \in 1..(1 + Len(rest)) |-> "v"]]], 1)

----------------------------------------------------------------------------
(* Operations *)

SanitizeColumns ==
    /\ df' = Rename(df)
    /\ result' = Outcome("sanitize_columns", <<>>, <<>>, "ok", <<>>, {}, Rename(df))
    /\ UNCHANGED <<caller_df, config>>

MultiResponseAnalysis ==
    \E q_list \in QLists, group_cols \in GroupColLists :
        /\ result' = MultiResponseResult(df, total_respondents, question_col, subquest_col,
                                         respondent_col, q_list, group_cols)
        /\ UNCHANGED <<caller_df, df, config>>

NominalFrequencyAnalysis ==
    \E q_list \in QLists, group_col \in GroupCols :
        /\ result' = NominalFrequencyResult(df, question_col, respondent_col, answer_col,
                                            q_list, group_col)
        /\ UNCHANGED <<caller_df, df, config>>

NominalFrequencyPivot ==
    \E q_list \in QLists, group_col \in GroupCols :
        /\ result' = NominalPivotResult(df, question_col, respondent_col, answer_col,
                                        q_list, group_col)
        /\ UNCHANGED <<caller_df, df, config>>

GroupedSummaryStats ==
    \E numeric_col_list \in NumericColLists, group_col \in StatGroupCols,
       summary_funcs \in SummaryFuncLists :
        /\ result' = GroupedSummaryResult(df, numeric_col_list, group_col, summary_funcs)
        /\ UNCHANGED <<caller_df, df, config>>

Next ==
    \/ SanitizeColumns
    \/ MultiResponseAnalysis
    \/ NominalFrequencyAnalysis
    \/ NominalFrequencyPivot
    \/ GroupedSummaryStats

Spec == Init /\ [][Next]_vars

NextAnalysis ==
    \/ MultiResponseAnalysis
    \/ NominalFrequencyAnalysis
    \/ NominalFrequencyPivot

SpecAnalysis == InitAnalysis /\ [][NextAnalysis]_vars

NextSanitize == SanitizeColumns

SpecSanitize == InitSanitize /\ [][NextSanitize]_vars

----------------------------------------------------------------------------
(* Properties of sanitize_columns (SpecSanitize) *)

FavoriteColor2023 == <<"f","a","v","o","r","i","t","e","_","c","o","l","o","r","_",
                       "2","0","2","3">>

HasDoubleUnderscore(s) == \E i \in 1..(Len(s) - 1) : s[i] = "_" /\ s[i + 1] = "_"

Trimmed(s) == s = <<>> \/ (s[1] \notin Whitespace /\ s[Len(s)] \notin Whitespace)

Sanitized == result.op = "sanitize_columns"

\* the column names a further sanitize_columns would leave
NamesAgain == [i \in 1..Len(df.cols) |-> SanitizeName(df.cols[i])]

\* C1 as stated: once sanitize_columns has run, running it again leaves every
\* column name as it is.
C1_Idempotent == Sanitized => NamesAgain = df.cols

\* C1 amended: once sanitize_columns has run, running it again leaves the
\* column names as they are exactly when no name still holds a double
\* underscore or surrounding whitespace.
C1_IdempotentWhenCollapsed ==
    Sanitized =>
        (NamesAgain = df.cols
            <=> \A i \in 1..Len(df.cols) :
                    ~HasDoubleUnderscore(df.cols[i]) /\ Trimmed(df.cols[i]))

\* "..." has become "__" after one pass, which a second pass changes again
C1_Witness ==
    /\ Sanitized
    /\ caller_df.cols[1] = <<".", ".", ".">>
    /\ df.cols[1] = <<"_", "_">>

----------------------------------------------------------------------------
(* Properties of the analysis operations (SpecAnalysis) *)

Succeeded(op) == result.op = op /\ result.status = "ok"

\* the held rows whose question is in the q_list of the last call
Selected == {i \in 1..Len(df.rows) : Cell(df, i, question_col) \in Range(result.q_list)}

\* distinct respondent identifiers of a set of held rows
Identifiers(rows) == {Cell(df, i, respondent_col) : i \in rows} \ {NA}

\* pct (in hundredths of a percent) is num / den * 100 rounded to 2 decimals
IsRounded(pct, num, den) ==
    /\ 2 * (pct * den - num * 10000) <= den
    /\ 2 * (num * 10000 - pct * den) <= den

SumOfPercentages(rows) == SumOver([r \in rows |-> r.Percentage], rows)

SumOfCounts(rows) == SumOver([r \in rows |-> r.Count], rows)

SameQuestion(r) == {x \in result.rows : x.key[1] = r.key[1]}

\* C2: in a result of nominal_frequency_analysis the percentages of the rows
\* of one question sum to 100, within 0.01 times the number of those rows.
C2_PercentagesSumTo100 ==
    Succeeded("nominal_frequency_analysis") =>
        \A r \in result.rows :
            /\ SumOfPercentages(SameQuestion(r)) - 10000 <= Cardinality(SameQuestion(r))
            /\ 10000 - SumOfPercentages(SameQuestion(r)) <= Cardinality(SameQuestion(r))

\* three rows of 33.33 each: the sum is 99.99
C2_Witness ==
    /\ Succeeded("nominal_frequency_analysis")
    /\ \E r \in result.rows :
           Cardinality(SameQuestion(r)) = 3 /\ SumOfPercentages(SameQuestion(r)) = 9999

\* C3 as stated: every Response Count is at most the number of distinct
\* respondent identifiers of the selected rows, and at most total_respondents.
C3_CountBounded ==
    Succeeded("multi_response_analysis") =>
        \A r \in result.rows :
            /\ r.ResponseCount <= Cardinality(Identifiers(Selected))
            /\ r.ResponseCount <= total_respondents

\* C3 amended: every Response Count is at most the number of distinct
\* respondent identifiers of the selected rows; it is at most
\* total_respondents when total_respondents is at least the number of
\* distinct respondent identifiers of the held table.
C3_CountBoundedByIdentifiers ==
    Succeeded("multi_response_analysis") =>
        \A r \in result.rows :
            /\ r.ResponseCount <= Cardinality(Identifiers(Selected))
            /\ total_respondents >= Cardinality(Identifiers(1..Len(df.rows)))
                   => r.ResponseCount <= total_respondents

\* two respondents counted against a population of one
C3_Witness ==
    /\ Succeeded("multi_response_analysis")
    /\ \E r \in result.rows : r.ResponseCount = 2 /\ total_respondents = 1

\* the key of held row i for the last multi_response_analysis call
MRKey(i) == [k \in 1..(Len(result.group) + 2) |->
                IF k <= Len(result.group) THEN Cell(df, i, result.group[k])
                ELSE IF k = Len(result.group) + 1 THEN Cell(df, i, question_col)
                ELSE Cell(df, i, subquest_col)]

HasNoMissing(key) == \A k \in 1..Len(key) : key[k] # NA

\* rows of the result are told apart by their key alone
OneRowPerKey == \A r1, r2 \in result.rows : r1.key = r2.key => r1 = r2

MRCounts ==
    \A r \in result.rows :
        /\ r.ResponseCount = Cardinality(Identifiers({i \in Selected : MRKey(i) = r.key}))
        /\ IsRounded(r.Percentage, r.ResponseCount, total_respondents)

\* C7 as stated: one row per distinct (group_cols, question, subquestion) key
\* of the selected rows, with the number of distinct respondents of the key
\* and that number / total_respondents * 100 rounded to 2 decimals.
C7_MultiResponseRows ==
    Succeeded("multi_response_analysis") =>
        /\ {r.key : r \in result.rows} = {MRKey(i) : i \in Selected}
        /\ OneRowPerKey
        /\ MRCounts

\* C7 amended: the same, for the keys that have no missing component (a
\* selected row with a missing group, question or subquestion value is in no
\* row of the result).
C7_MultiResponseCompleteKeys ==
    Succeeded("multi_response_analysis") =>
        /\ {r.key : r \in result.rows} = {k \in {MRKey(i) : i \in Selected} : HasNoMissing(k)}
        /\ OneRowPerKey
        /\ MRCounts

\* the scenario: (Q1,S1,R1), (Q1,S1,R2), (Q1,S2,R1) with total_respondents = 4
C7_Witness ==
    /\ Succeeded("multi_response_analysis")
    /\ df.rows = << <<"Q1", "S1", "R1", "Yes">>, <<"Q1", "S1", "R2", "Yes">>,
                    <<"Q1", "S2", "R1", "No">> >>
    /\ total_respondents = 4
    /\ result.rows = {[key |-> <<"Q1", "S1">>, ResponseCount |-> 2, Percentage |-> 5000],
                      [key |-> <<"Q1", "S2">>, ResponseCount |-> 1, Percentage |-> 2500]}

\* the key of held row i for the last nominal frequency call
NominalKey(i) == <<Cell(df, i, question_col), Cell(df, i, result.group), Cell(df, i, answer_col)>>

NominalCounts ==
    \A r \in result.rows :
        /\ r.Count = Cardinality({i \in Selected : NominalKey(i) = r.key})
        /\ IsRounded(r.Percentage, r.Count, SumOfCounts(SameQuestion(r)))

\* C10 as stated: one row per distinct (question, group_col, answer) key of
\* the selected rows, with the raw number of rows of the key and that number
\* over the sum of Count of the question * 100 rounded to 2 decimals.
C10_NominalRows ==
    Succeeded("nominal_frequency_analysis") =>
        /\ {r.key : r \in result.rows} = {NominalKey(i) : i \in Selected}
        /\ OneRowPerKey
        /\ NominalCounts

\* C10 amended: the same, for the keys that have no missing component.
C10_NominalCompleteKeys ==
    Succeeded("nominal_frequency_analysis") =>
        /\ {r.key : r \in result.rows} = {k \in {NominalKey(i) : i \in Selected} : HasNoMissing(k)}
        /\ OneRowPerKey
        /\ NominalCounts

\* the scenario: Count 2 -> 66.67 and Count 1 -> 33.33
C10_Witness ==
    /\ Succeeded("nominal_frequency_analysis")
    /\ result.group = SubquestionName
    /\ result.rows = {[key |-> <<"Q1", "S1", "Yes">>, Count |-> 2, Percentage |-> 6667],
                      [key |-> <<"Q1", "S2", "No">>, Count |-> 1, Percentage |-> 3333]}

NoMissingRespondent == \A i \in 1..Len(df.rows) : Cell(df, i, respondent_col) # NA

\* what nominal_frequency_analysis returns for the arguments of the last call
AnalysisOfSameCall ==
    NominalFrequencyResult(df, question_col, respondent_col, answer_col,
                           result.q_list, result.group)

\* C8: on a table without missing respondent values, nominal_frequency_pivot
\* returns what nominal_frequency_analysis returns for the same arguments.
C8_PivotEqualsAnalysis ==
    (result.op = "nominal_frequency_pivot" /\ NoMissingRespondent) =>
        /\ result.status = AnalysisOfSameCall.status
        /\ result.rows = AnalysisOfSameCall.rows

----------------------------------------------------------------------------
(* Properties of the errors and of the held state (Spec) *)

RoleCols == {question_col, subquest_col, respondent_col, answer_col}

AnalysisOps == {"multi_response_analysis", "nominal_frequency_analysis",
                "nominal_frequency_pivot"}

\* the group keys of the last analysis call
GroupArgs == IF result.op = "multi_response_analysis" THEN Range(result.group)
             ELSE {result.group}

\* the columns the last analysis call refers to
Referenced ==
    GroupArgs \cup
        (IF result.op = "multi_response_analysis"
             THEN {question_col, subquest_col, respondent_col}
         ELSE IF result.op = "nominal_frequency_analysis"
             THEN {question_col, answer_col}
         ELSE {question_col, respondent_col, answer_col})

Absent(names) == {c \in names : \A i \in 1..Len(df.cols) : df.cols[i] # c}

LookupFailure == result.status = "KeyError" /\ result.rows = {} /\ result.table = EmptyTable

\* C6 as stated: an analysis operation fails with a missing-column error when
\* any of the four role columns or any group key is absent.
C6_AnyRoleColumnAbsent ==
    (result.op \in AnalysisOps /\ Absent(RoleCols \cup GroupArgs) # {}) => LookupFailure

\* C6 amended: an analysis operation fails with a missing-column error, naming
\* an absent column, when a column it refers to is absent: group keys,
\* question, and subquestion and respondent (multi_response_analysis), answer
\* (nominal_frequency_analysis), respondent and answer (nominal_frequency_pivot).
C6_ReferencedColumnAbsent ==
    (result.op \in AnalysisOps /\ Absent(Referenced) # {}) =>
        LookupFailure /\ result.column \in Absent(Referenced)

\* multi_response_analysis without a respondent column
C6_Witness ==
    /\ result.op = "multi_response_analysis"
    /\ Absent(Referenced) = {respondent_col}
    /\ LookupFailure
    /\ result.column = respondent_col

\* the names given to the last grouped_summary_stats call, in checking order
Requested(r) == r.q_list \o <<r.group>>

\* C4: grouped_summary_stats with an absent column raises a missing-column
\* error naming the first absent column, returns no table and leaves the
\* held table as it was.
C4_FailsBeforeAggregation ==
    [][(result'.op = "grouped_summary_stats"
          /\ \E n \in 1..Len(Requested(result')) :
                 \A i \in 1..Len(df.cols) : df.cols[i] # Requested(result')[n])
        => /\ result'.status = "KeyError"
           /\ result'.rows = {}
           /\ result'.table = EmptyTable
           /\ df' = df
           /\ \E n \in 1..Len(Requested(result')) :
                 /\ result'.column = Requested(result')[n]
                 /\ \A i \in 1..Len(df.cols) : df.cols[i] # result'.column
                 /\ \A m \in 1..(n - 1) : \E i \in 1..Len(df.cols) :
                        df.cols[i] = Requested(result')[m]]_vars

\* the second numeric column is the absent one, and is the one named
C4_Witness ==
    /\ result.op = "grouped_summary_stats"
    /\ result.status = "KeyError"
    /\ result.q_list = <<ScoreName, WeightName>>
    /\ result.column = WeightName
    /\ df.rows # <<>>

\* C9: no operation changes the five construction parameters or the caller's
\* table; only sanitize_columns changes the held table, and it changes the
\* column names only.
C9_Frame ==
    [][/\ config' = config
       /\ caller_df' = caller_df
       /\ df'.rows = df.rows
       /\ Len(df'.cols) = Len(df.cols)
       /\ result'.op # "sanitize_columns" => df' = df]_vars

\* an analysis has succeeded on a table whose names sanitize_columns changed
C9_Witness ==
    /\ df.cols # caller_df.cols
    /\ df.rows = caller_df.rows
    /\ df.rows # <<>>
    /\ Succeeded("nominal_frequency_analysis")
    /\ result.rows # {}

====
